---- MODULE Spec2Model ----
(***************************************************************************)
(* A model of fetch_rhm.py: the rolling indicator library (rsi, macd,      *)
(* bollinger, chaikin_mf, obv) and the batch pipeline of main(), which     *)
(* downloads a daily OHLCV series, computes the indicators, the            *)
(* support/resistance hints and the historical-volatility proxy, assembles *)
(* the payload and writes the JSON and CSV files.                          *)
(*                                                                         *)
(* Numbers.  A pandas/numpy float is modelled as a record [t, n, d]:       *)
(*   t = "num"  the rational n/d in lowest terms, d > 0 (exact arithmetic) *)
(*   t = "nan"  NaN                                                        *)
(*   t = "inf"  +infinity (n = 1) or -infinity (n = -1)                    *)
(*   t = "pos"  a finite positive float whose magnitude is not tracked     *)
(*              (a non-zero standard deviation, sqrt(252))                 *)
(*   t = "fin"  a finite float whose value is not tracked (an EMA, a band) *)
(*   t = "log"  ln(n/d), a log-return of two positive closes               *)
(* Python's None is [t |-> "none"].  Arithmetic is exact: the rounding     *)
(* error of binary floating point is not modelled.                         *)
(***************************************************************************)
EXTENDS Integers, Sequences, FiniteSets, TLC

\* pc          where the run stands: "start", "loaded", "aborted",
\*             "indicators", "levels", "volatility", "assembled",
\*             "json_written", "done" in main(); "fn_input", "fn_ret" when a
\*             library function is exercised on its own
\* df          the downloaded frame: a sequence of bars
\*             [Date, Open, High, Low, Close, Volume]
\* cols        the indicator columns main() adds to df (lines 56-60)
\* support, resistance, hv20, payload   the locals of main() of these names
\* jsonFile    the content of data/rhm_latest.json
\* csvFile     the rows of data/rhm_prices_last120.csv
\* fnName, fnPeriod, fnRet   the library function called on its own, its
\*             period argument and the series it returned
VARIABLES pc, df, cols, support, resistance, hv20, payload, jsonFile, csvFile,
          fnName, fnPeriod, fnRet

vars == <<pc, df, cols, support, resistance, hv20, payload, jsonFile, csvFile,
          fnName, fnPeriod, fnRet>>

(***************************************************************************)
(* Bounds of the model.                                                    *)
(***************************************************************************)
MaxBars == 24
MaxLen == 4
MaxPeriod == 3

(***************************************************************************)
(* Program constants: the window parameters main() passes.                 *)
(***************************************************************************)
BollWindow == 20
BollMult == 2
RsiPeriod == 14
CmfPeriod == 20
RecentBars == 40
LevelWindow == 5
HvWindow == 20
HvMinReturns == 20
LevelDigits == 2
HvDigits == 4
CsvRows == 120

(***************************************************************************)
(* Float values and their arithmetic (IEEE rules for NaN, infinity, x/0).  *)
(***************************************************************************)
Abs(x) == IF x < 0 THEN -x ELSE x

Sgn(x) == IF x > 0 THEN 1 ELSE IF x < 0 THEN -1 ELSE 0

RECURSIVE GCD(_, _)
GCD(a, b) == IF b = 0 THEN a ELSE GCD(b, a % b)

NaN == [t |-> "nan", n |-> 0, d |-> 1]

None == [t |-> "none", n |-> 0, d |-> 1]

Pos == [t |-> "pos", n |-> 1, d |-> 1]

Fin == [t |-> "fin", n |-> 0, d |-> 1]

Inf(s) == [t |-> "inf", n |-> s, d |-> 0]

LogRatio(a, b) == [t |-> "log", n |-> a, d |-> b]

Num(n, d) ==
    IF d = 1 THEN [t |-> "num", n |-> n, d |-> 1]
    ELSE LET g == GCD(Abs(n), Abs(d))
             s == IF d < 0 THEN -1 ELSE 1
         IN  [t |-> "num", n |-> (s * n) \div g, d |-> (s * d) \div g]

Whole(n) == [t |-> "num", n |-> n, d |-> 1]

Zero == Whole(0)

IsNaN(x) == x.t = "nan"

IsZero(x) == x.t = "num" /\ x.n = 0

\* the sign of a float when the model tracks it: -1, 0, 1, and 2 for "fin"
SignOf(x) ==
    CASE x.t = "num" -> Sgn(x.n)
      [] x.t = "inf" -> x.n
      [] x.t = "pos" -> 1
      [] x.t = "log" -> Sgn(x.n - x.d)
      [] OTHER -> 2

FNeg(x) ==
    CASE x.t = "num" -> Num(-x.n, x.d)
      [] x.t = "inf" -> Inf(-x.n)
      [] x.t = "pos" -> Fin
      [] x.t = "log" -> LogRatio(x.d, x.n)
      [] OTHER -> x

FAdd(a, b) ==
    IF a.t = "num" /\ b.t = "num" /\ a.d = 1 /\ b.d = 1
    THEN [t |-> "num", n |-> a.n + b.n, d |-> 1]
    ELSE IF IsNaN(a) \/ IsNaN(b) THEN NaN
    ELSE IF a.t = "inf" /\ b.t = "inf" THEN (IF a.n = b.n THEN a ELSE NaN)
    ELSE IF a.t = "inf" THEN a
    ELSE IF b.t = "inf" THEN b
    ELSE IF a.t = "num" /\ b.t = "num" THEN Num(a.n * b.d + b.n * a.d, a.d * b.d)
    ELSE IF IsZero(a) THEN b
    ELSE IF IsZero(b) THEN a
    ELSE IF SignOf(a) = 1 /\ SignOf(b) = 1 THEN Pos
    ELSE Fin

FSub(a, b) == FAdd(a, FNeg(b))

FMul(a, b) ==
    IF IsNaN(a) \/ IsNaN(b) THEN NaN
    ELSE IF a.t = "inf" \/ b.t = "inf"
         THEN (IF IsZero(a) \/ IsZero(b) THEN NaN
               ELSE Inf(IF SignOf(a) = SignOf(b) THEN 1 ELSE -1))
    ELSE IF a.t = "num" /\ b.t = "num" THEN Num(a.n * b.n, a.d * b.d)
    ELSE IF IsZero(a) \/ IsZero(b) THEN Zero
    ELSE IF SignOf(a) = 1 /\ SignOf(b) = 1 THEN Pos
    ELSE Fin

FDiv(a, b) ==
    IF IsNaN(a) \/ IsNaN(b) THEN NaN
    ELSE IF b.t = "inf" THEN (IF a.t = "inf" THEN NaN ELSE Zero)
    ELSE IF a.t = "inf" THEN Inf(IF SignOf(b) = -1 THEN -a.n ELSE a.n)
    ELSE IF IsZero(b) THEN (IF IsZero(a) THEN NaN
                            ELSE Inf(IF SignOf(a) = -1 THEN -1 ELSE 1))
    ELSE IF a.t = "num" /\ b.t = "num" THEN Num(a.n * b.d, a.d * b.n)
    ELSE IF IsZero(a) THEN Zero
    ELSE IF SignOf(a) = 1 /\ SignOf(b) = 1 THEN Pos
    ELSE Fin

\* a > b and a < b; every comparison with NaN is False
FGt(a, b) == ~IsNaN(a) /\ ~IsNaN(b) /\ SignOf(FSub(a, b)) = 1

FLt(a, b) == ~IsNaN(a) /\ ~IsNaN(b) /\ SignOf(FSub(a, b)) = -1

\* a == b on floats that are both tracked
FEq(a, b) ==
    IF a.t = "log" /\ b.t = "log" THEN a.n * b.d = b.n * a.d
    ELSE a = b /\ ~IsNaN(a)

\* Series.replace(0, np.nan) on one entry
ReplaceZero(x) == IF IsZero(x) THEN NaN ELSE x

\* round(x, digits): NaN stays NaN (no error is raised when digits is given)
Pow10(k) == IF k = 0 THEN 1 ELSE IF k = 1 THEN 10 ELSE IF k = 2 THEN 100
            ELSE IF k = 3 THEN 1000 ELSE 10000

Round(x, digits) ==
    IF x.t = "num"
    THEN LET p == Pow10(digits)
             s == Sgn(x.n)
             q == (2 * Abs(x.n) * p + x.d) \div (2 * x.d)
         IN  Num(s * q, p)
    ELSE x

(***************************************************************************)
(* Series helpers: a Series is a sequence (1-based here, position i of the *)
(* model is index i-1 of the program).                                     *)
(***************************************************************************)
Column(d, name) == [i \in 1..Len(d) |-> Whole(d[i][name])]

\* Series.diff(): NaN at the first position
Diff(s) == [i \in 1..Len(s) |-> IF i = 1 THEN NaN ELSE FSub(s[i], s[i - 1])]

\* df.tail(k) / Series.tail(k)
TailRows(s, k) == IF Len(s) <= k THEN s ELSE SubSeq(s, Len(s) - k + 1, Len(s))

RECURSIVE SumRange(_, _, _)
SumRange(s, lo, hi) ==
    IF lo > hi THEN Zero ELSE FAdd(SumRange(s, lo, hi - 1), s[hi])

\* Series.rolling(w).sum(): NaN until the window is full, NaN if it holds a NaN
RollingSum(s, w) ==
    [i \in 1..Len(s) |-> IF i < w THEN NaN ELSE SumRange(s, i - w + 1, i)]

\* Series.rolling(w).mean()
RollingMean(s, w) ==
    LET sums == RollingSum(s, w)
    IN  [i \in 1..Len(s) |-> FDiv(sums[i], Whole(w))]

\* Series.rolling(w).std() (ddof = 1): 0 on a constant window, else positive
RollingStd(s, w) ==
    [i \in 1..Len(s) |->
        IF i < w \/ (\E j \in (i - w + 1)..i : IsNaN(s[j])) \/ w < 2 THEN NaN
        ELSE IF \A j \in (i - w + 1)..i : FEq(s[j], s[i]) THEN Zero
        ELSE Pos]

\* Series.rolling(w).min() / .max() of an integer-valued series
RollingExtreme(s, w, isMin) ==
    [i \in 1..Len(s) |->
        IF i < w THEN NaN
        ELSE LET win == {s[j].n : j \in (i - w + 1)..i}
             IN  Whole(CHOOSE m \in win :
                        \A o \in win : IF isMin THEN m <= o ELSE m >= o)]

(***************************************************************************)
(* The rolling indicator library.                                          *)
(***************************************************************************)
\* delta.where(delta > 0, 0): the NaN first delta fails the test and becomes 0
Gain(delta) ==
    [i \in 1..Len(delta) |-> IF FGt(delta[i], Zero) THEN delta[i] ELSE Zero]

\* Loss without the leading minus: delta.where(delta < 0, 0)
LossNotNegated(delta) ==
    [i \in 1..Len(delta) |-> IF FLt(delta[i], Zero) THEN delta[i] ELSE Zero]

\* Loss counting every move, up or down, as a loss: delta.abs()
LossOfAnyMove(delta) ==
    [i \in 1..Len(delta) |->
        IF IsNaN(delta[i]) THEN Zero
        ELSE IF FLt(delta[i], Zero) THEN FNeg(delta[i]) ELSE delta[i]]

\* -delta.where(delta < 0, 0)
Loss(delta) ==
    [i \in 1..Len(delta) |->
        FNeg(IF FLt(delta[i], Zero) THEN delta[i] ELSE Zero)]

\* RelStrength without the replace: gain / loss
RelStrengthNoReplace(gain, loss) ==
    [i \in 1..Len(gain) |-> FDiv(gain[i], loss[i])]

\* rs = gain / loss.replace(0, np.nan)
RelStrength(gain, loss) ==
    [i \in 1..Len(gain) |-> FDiv(gain[i], ReplaceZero(loss[i]))]

Rsi(series, period) ==
    LET delta == Diff(series)
        gain == RollingMean(Gain(delta), period)
        loss == RollingMean(Loss(delta), period)
        rs == RelStrength(gain, loss)
    IN  [i \in 1..Len(series) |->
            FSub(Whole(100), FDiv(Whole(100), FAdd(Whole(1), rs[i])))]

\* Series.ewm(span, adjust=False).mean(): defined from the first observation
Ewm(s) == [i \in 1..Len(s) |-> IF IsNaN(s[i]) THEN NaN ELSE Fin]

Macd(series) ==
    LET ema_fast == Ewm(series)
        ema_slow == Ewm(series)
        macd_line == [i \in 1..Len(series) |-> FSub(ema_fast[i], ema_slow[i])]
        signal_line == Ewm(macd_line)
        hist == [i \in 1..Len(series) |-> FSub(macd_line[i], signal_line[i])]
    IN  [line |-> macd_line, signal |-> signal_line, hist |-> hist]

Bollinger(series, window, mult) ==
    LET ma == RollingMean(series, window)
        std == RollingStd(series, window)
    IN  [ma |-> ma,
         upper |-> [i \in 1..Len(series) |-> FAdd(ma[i], FMul(Whole(mult), std[i]))],
         lower |-> [i \in 1..Len(series) |-> FSub(ma[i], FMul(Whole(mult), std[i]))]]

\* the per-bar money-flow multiplier; NaN when High = Low
MfMult(bar) ==
    FDiv(Whole((bar.Close - bar.Low) - (bar.High - bar.Close)),
         ReplaceZero(Whole(bar.High - bar.Low)))

ChaikinMf(d, period) ==
    LET mf_vol == [i \in 1..Len(d) |-> FMul(MfMult(d[i]), Whole(d[i].Volume))]
        num == RollingSum(mf_vol, period)
        den == RollingSum(Column(d, "Volume"), period)
    IN  [i \in 1..Len(d) |-> FDiv(num[i], den[i])]

\* ObvStep without the comparison of closes: the volume is always added
ObvStepNoCompare(d, prev, i) == prev + d[i].Volume

\* lines 41-46: the value appended for position i, prev being obv_vals[-1]

ObvStep(d, prev, i) ==
    IF d[i].Close > d[i - 1].Close THEN prev + d[i].Volume
    ELSE IF d[i].Close < d[i - 1].Close THEN prev - d[i].Volume
    ELSE prev

\* obv_vals once the loop has handled positions 2..k
RECURSIVE ObvVals(_, _)
ObvVals(d, k) ==
    IF k <= 1 THEN <<0>>
    ELSE LET sofar == ObvVals(d, k - 1)
         IN  Append(sofar, ObvStep(d, sofar[k - 1], k))

Obv(d) == LET vals == ObvVals(d, Len(d))
          IN  [i \in 1..Len(d) |-> Whole(vals[i])]

(***************************************************************************)
(* main(): the locals of the run are the state; pc is the position in it.  *)
(* Unset is a local that has not been assigned, or a file not written.     *)
(***************************************************************************)
Unset == <<>>

\* Empty with the test lost: the frame is never taken to be empty
EmptyNever(d) == FALSE

\* df.empty

Empty(d) == Len(d) = 0

Last(s) == s[Len(s)]

\* lines 56-60: the indicator columns added to df
Indicators(d) ==
    LET close == Column(d, "Close")
        bb == Bollinger(close, BollWindow, BollMult)
        m == Macd(close)
    IN  [BB_MA20 |-> bb.ma, BB_Upper |-> bb.upper, BB_Lower |-> bb.lower,
         RSI14 |-> Rsi(close, RsiPeriod),
         MACD |-> m.line, MACD_Signal |-> m.signal, MACD_Hist |-> m.hist,
         CMF20 |-> ChaikinMf(d, CmfPeriod),
         OBV |-> Obv(d)]

\* lines 63-65: float(recent[col].rolling(5).min()/max().tail(1))
LevelOf(d, name, isMin) ==
    LET recent == TailRows(d, RecentBars)
    IN  Last(RollingExtreme(Column(recent, name), LevelWindow, isMin))

\* line 69: np.log(df['Close']).diff()
LogReturns(d) ==
    [i \in 1..Len(d) |->
        IF i = 1 THEN NaN ELSE LogRatio(d[i].Close, d[i - 1].Close)]

\* line 70
HistVol(d) ==
    LET logret == LogReturns(d)
        defined == {i \in 1..Len(d) : ~IsNaN(logret[i])}
    IN  IF Cardinality(defined) > HvMinReturns
        THEN FMul(Last(RollingStd(logret, HvWindow)), Pos)
        ELSE None

\* float(x) if not np.isnan(x) else None
NanToNone(x) == IF IsNaN(x) THEN None ELSE x

\* the truth value of a local in "if hv20": None and 0.0 are false, NaN is true
Truthy(x) == x.t # "none" /\ ~IsZero(x)

\* round(hv20, 4) if hv20 else None
HvField(h) == IF Truthy(h) THEN Round(h, HvDigits) ELSE None

\* lines 72-106
Payload(d, c, sup, res, h) ==
    LET latest == Last(d)
    IN  [ticker |-> "RHM.DE", as_of |-> latest.Date,
         close |-> Whole(latest.Close), open |-> Whole(latest.Open),
         high |-> Whole(latest.High), low |-> Whole(latest.Low),
         volume |-> Whole(latest.Volume),
         ma20 |-> NanToNone(Last(c.BB_MA20)),
         upper |-> NanToNone(Last(c.BB_Upper)),
         lower |-> NanToNone(Last(c.BB_Lower)),
         rsi14 |-> NanToNone(Last(c.RSI14)),
         macd_line |-> NanToNone(Last(c.MACD)),
         macd_signal |-> NanToNone(Last(c.MACD_Signal)),
         macd_hist |-> NanToNone(Last(c.MACD_Hist)),
         cmf20 |-> NanToNone(Last(c.CMF20)),
         obv |-> NanToNone(Last(c.OBV)),
         support_hint |-> Round(sup, LevelDigits),
         resistance_hint |-> Round(res, LevelDigits),
         hv20_proxy |-> HvField(h)]

\* line 112: the rows of the enriched frame
Enriched(d, c) ==
    [i \in 1..Len(d) |->
        [bar |-> d[i], BB_MA20 |-> c.BB_MA20[i], BB_Upper |-> c.BB_Upper[i],
         BB_Lower |-> c.BB_Lower[i], RSI14 |-> c.RSI14[i], MACD |-> c.MACD[i],
         MACD_Signal |-> c.MACD_Signal[i], MACD_Hist |-> c.MACD_Hist[i],
         CMF20 |-> c.CMF20[i], OBV |-> c.OBV[i]]]

(***************************************************************************)
(* What the Series Source may return: an empty frame, or 1..MaxBars daily  *)
(* bars in two phases, bars 1..k of shape a and the rest of shape b.  A    *)
(* shape fixes the step of the close, the distance of high and low from    *)
(* the close, and the volume; the first close is 100.                      *)
(***************************************************************************)
Shapes == {"tight", "wide", "up", "down", "halt"}

ShapeOf(sh) ==
    CASE sh = "tight" -> [dc |-> 0, hr |-> 0, lr |-> 0, vol |-> 10]
      [] sh = "wide" -> [dc |-> 0, hr |-> 1, lr |-> 2, vol |-> 10]
      [] sh = "up" -> [dc |-> 1, hr |-> 2, lr |-> 1, vol |-> 10]
      [] sh = "down" -> [dc |-> -1, hr |-> 1, lr |-> 0, vol |-> 10]
      [] sh = "halt" -> [dc |-> 0, hr |-> 1, lr |-> 1, vol |-> 0]

SourceBar(i, k, a, b) ==
    LET sh == ShapeOf(IF i <= k THEN a ELSE b)
        ka == IF i <= k THEN i ELSE k
        c == 100 + ka * ShapeOf(a).dc + (i - ka) * ShapeOf(b).dc
    IN  [Date |-> i, Open |-> c - sh.dc, High |-> c + sh.hr, Low |-> c - sh.lr,
         Close |-> c, Volume |-> sh.vol]

SourceSeries(n, k, a, b) == [i \in 1..n |-> SourceBar(i, k, a, b)]

Init ==
    /\ pc = "start"
    /\ df = <<>>
    /\ cols = Unset
    /\ support = Unset
    /\ resistance = Unset
    /\ hv20 = Unset
    /\ payload = Unset
    /\ jsonFile = Unset
    /\ csvFile = Unset
    /\ fnName = ""
    /\ fnPeriod = 0
    /\ fnRet = <<>>

\* line 50
Download ==
    /\ pc = "start"
    /\ \E n \in 0..MaxBars : \E k \in 0..n : \E a \in Shapes : \E b \in Shapes :
           df' = SourceSeries(n, k, a, b)
    /\ pc' = "loaded"
    /\ UNCHANGED <<cols, support, resistance, hv20, payload, jsonFile, csvFile,
                   fnName, fnPeriod, fnRet>>

\* lines 51-52
AbortEmpty ==
    /\ pc = "loaded"
    /\ Empty(df)
    /\ pc' = "aborted"
    /\ UNCHANGED <<df, cols, support, resistance, hv20, payload, jsonFile, csvFile,
                   fnName, fnPeriod, fnRet>>

\* lines 54-60
ComputeIndicators ==
    /\ pc = "loaded"
    /\ ~Empty(df)
    /\ cols' = Indicators(df)
    /\ pc' = "indicators"
    /\ UNCHANGED <<df, support, resistance, hv20, payload, jsonFile, csvFile,
                   fnName, fnPeriod, fnRet>>

\* lines 63-65
EstimateLevels ==
    /\ pc = "indicators"
    /\ support' = LevelOf(df, "Low", TRUE)
    /\ resistance' = LevelOf(df, "High", FALSE)
    /\ pc' = "levels"
    /\ UNCHANGED <<df, cols, hv20, payload, jsonFile, csvFile,
                   fnName, fnPeriod, fnRet>>

\* lines 69-70
EstimateVolatility ==
    /\ pc = "levels"
    /\ hv20' = HistVol(df)
    /\ pc' = "volatility"
    /\ UNCHANGED <<df, cols, support, resistance, payload, jsonFile, csvFile,
                   fnName, fnPeriod, fnRet>>

\* lines 72-106
Assemble ==
    /\ pc = "volatility"
    /\ payload' = Payload(df, cols, support, resistance, hv20)
    /\ pc' = "assembled"
    /\ UNCHANGED <<df, cols, support, resistance, hv20, jsonFile, csvFile,
                   fnName, fnPeriod, fnRet>>

\* lines 108-110
WriteJson ==
    /\ pc = "assembled"
    /\ jsonFile' = payload
    /\ pc' = "json_written"
    /\ UNCHANGED <<df, cols, support, resistance, hv20, payload, csvFile,
                   fnName, fnPeriod, fnRet>>

\* line 112
WriteCsv ==
    /\ pc = "json_written"
    /\ csvFile' = TailRows(Enriched(df, cols), CsvRows)
    /\ pc' = "done"
    /\ UNCHANGED <<df, cols, support, resistance, hv20, payload, jsonFile,
                   fnName, fnPeriod, fnRet>>

Next ==
    \/ Download
    \/ AbortEmpty
    \/ ComputeIndicators
    \/ EstimateLevels
    \/ EstimateVolatility
    \/ Assemble
    \/ WriteJson
    \/ WriteCsv

Spec == Init /\ [][Next]_vars

(***************************************************************************)
(* The library on its own: any series of up to MaxLen bars drawn from      *)
(* FnBars, and one call of rsi, chaikin_mf or obv on it.                   *)
(***************************************************************************)
FnBars ==
    { [Open |-> 1, High |-> 1, Low |-> 1, Close |-> 1, Volume |-> 2],
      [Open |-> 2, High |-> 3, Low |-> 1, Close |-> 2, Volume |-> 2],
      [Open |-> 3, High |-> 3, Low |-> 2, Close |-> 3, Volume |-> 2],
      [Open |-> 1, High |-> 3, Low |-> 1, Close |-> 1, Volume |-> 0],
      [Open |-> 2, High |-> 2, Low |-> 2, Close |-> 2, Volume |-> 1],
      [Open |-> 3, High |-> 3, Low |-> 1, Close |-> 3, Volume |-> 1] }

InitFn ==
    /\ pc = "fn_input"
    /\ df = <<>>
    /\ cols = Unset
    /\ support = Unset
    /\ resistance = Unset
    /\ hv20 = Unset
    /\ payload = Unset
    /\ jsonFile = Unset
    /\ csvFile = Unset
    /\ fnName = ""
    /\ fnPeriod = 0
    /\ fnRet = <<>>

FnAddBar ==
    /\ pc = "fn_input"
    /\ Len(df) < MaxLen
    /\ \E b \in FnBars :
           df' = Append(df, [Date |-> Len(df) + 1, Open |-> b.Open, High |-> b.High,
                             Low |-> b.Low, Close |-> b.Close, Volume |-> b.Volume])
    /\ UNCHANGED <<pc, cols, support, resistance, hv20, payload, jsonFile, csvFile,
                   fnName, fnPeriod, fnRet>>

CallRsi ==
    /\ pc = "fn_input"
    /\ \E p \in 1..MaxPeriod :
           /\ fnPeriod' = p
           /\ fnRet' = Rsi(Column(df, "Close"), p)
    /\ fnName' = "rsi"
    /\ pc' = "fn_ret"
    /\ UNCHANGED <<df, cols, support, resistance, hv20, payload, jsonFile, csvFile>>

CallChaikinMf ==
    /\ pc = "fn_input"
    /\ \E p \in 1..MaxPeriod :
           /\ fnPeriod' = p
           /\ fnRet' = ChaikinMf(df, p)
    /\ fnName' = "chaikin_mf"
    /\ pc' = "fn_ret"
    /\ UNCHANGED <<df, cols, support, resistance, hv20, payload, jsonFile, csvFile>>

CallObv ==
    /\ pc = "fn_input"
    /\ Len(df) >= 1
    /\ fnRet' = Obv(df)
    /\ fnName' = "obv"
    /\ pc' = "fn_ret"
    /\ UNCHANGED <<df, cols, support, resistance, hv20, payload, jsonFile, csvFile,
                   fnPeriod>>

NextFn ==
    \/ FnAddBar
    \/ CallRsi
    \/ CallChaikinMf
    \/ CallObv

SpecFn == InitFn /\ [][NextFn]_vars

(***************************************************************************)
(* Properties.                                                             *)
(***************************************************************************)
Computed == pc \in {"indicators", "levels", "volatility", "assembled",
                    "json_written", "done"}

Assembled == pc \in {"assembled", "json_written", "done"}

RsiReturned == pc = "fn_ret" /\ fnName = "rsi"

ObvReturned == pc = "fn_ret" /\ fnName = "obv"

\* the closes rise strictly and every bar has the volume of the first
Ramp(d) ==
    \A i \in 2..Len(d) : d[i].Close > d[i - 1].Close /\ d[i].Volume = d[1].Volume

\* constant close, high = low on every bar
Flat(d) ==
    \A i \in 1..Len(d) : d[i].Close = d[1].Close /\ d[i].High = d[i].Low

\* the value each snapshot field is taken from, before null substitution
RawField ==
    [ma20 |-> Last(cols.BB_MA20), upper |-> Last(cols.BB_Upper),
     lower |-> Last(cols.BB_Lower), rsi14 |-> Last(cols.RSI14),
     macd_line |-> Last(cols.MACD), macd_signal |-> Last(cols.MACD_Signal),
     macd_hist |-> Last(cols.MACD_Hist), cmf20 |-> Last(cols.CMF20),
     obv |-> Last(cols.OBV), support_hint |-> support,
     resistance_hint |-> resistance, hv20_proxy |-> hv20]

Undefined(x) == x.t \in {"nan", "none"}

\* C1: a run whose Series Source returned 0 bars goes from the download to
\* the abort and nowhere else: no indicator column, level, volatility or
\* payload is ever computed and neither the JSON nor the CSV file is written.
C1_EmptySeriesAborts ==
    (pc # "start" /\ Len(df) = 0) =>
        /\ pc \in {"loaded", "aborted"}
        /\ cols = Unset /\ support = Unset /\ resistance = Unset /\ hv20 = Unset
        /\ payload = Unset
        /\ jsonFile = Unset /\ csvFile = Unset

C1_Witness == pc = "aborted" /\ Len(df) = 0 /\ payload = Unset

\* C2: in every assembled snapshot of a non-empty series, each field whose
\* source value is undefined (NaN or None) is emitted as None, and no field
\* of the snapshot is NaN.
C2_UndefinedIsNull ==
    Assembled =>
        \A f \in DOMAIN RawField :
            /\ Undefined(RawField[f]) => payload[f] = None
            /\ ~IsNaN(payload[f])

\* the signed volume of position i, and the signed sum over positions 2..i
SignedVolume(d, i) ==
    IF d[i].Close > d[i - 1].Close THEN d[i].Volume
    ELSE IF d[i].Close < d[i - 1].Close THEN -d[i].Volume
    ELSE 0

RECURSIVE SignedSum(_, _)
SignedSum(d, i) == IF i <= 1 THEN 0 ELSE SignedSum(d, i - 1) + SignedVolume(d, i)

\* C3: obv of n >= 1 bars has length n, is a defined number at every
\* position, is 0 at the first position, moves at each later position by
\* plus, minus or zero times that bar's volume as the close rose, fell or
\* stayed (so it is the signed cumulative sum of volumes), and on a strictly
\* rising ramp of constant volume v ends at (n-1)*v.
C3_ObvCumulative ==
    ObvReturned =>
        /\ Len(fnRet) = Len(df)
        /\ fnRet[1] = Zero
        /\ \A i \in 1..Len(fnRet) :
               /\ fnRet[i].t = "num" /\ fnRet[i].d = 1
               /\ fnRet[i].n = SignedSum(df, i)
               /\ i >= 2 => fnRet[i].n = fnRet[i - 1].n + SignedVolume(df, i)
        /\ Ramp(df) => Last(fnRet).n = (Len(df) - 1) * df[1].Volume

C3_Witness ==
    /\ ObvReturned
    /\ Len(df) >= 3
    /\ Ramp(df)
    /\ Last(fnRet).n = (Len(df) - 1) * df[1].Volume
    /\ Last(fnRet).n > 0

\* C4: the snapshot of a flat series (constant close, high = low on every
\* bar) has volatility proxy exactly 0, not None, and CMF None.  The claim
\* is stated from 21 bars on; it is taken here from 22 bars on, where the
\* 21 log-returns that line 70 asks for exist (with exactly 21 bars hv20 is
\* None for lack of returns, whatever their values).
C4_FlatSeries ==
    (Assembled /\ Flat(df) /\ Len(df) >= 22) =>
        /\ payload.hv20_proxy = Zero
        /\ payload.cmf20 = None

\* the minimum (maximum) of column name over the last w bars of d
ExtremeOfLast(d, name, w, isMin) ==
    LET vals == {d[i][name] : i \in (Len(d) - w + 1)..Len(d)}
    IN  CHOOSE m \in vals : \A o \in vals : IF isMin THEN m <= o ELSE m >= o

\* C5: with 1 to 4 bars the snapshot's support and resistance hints are
\* None; with 5 or more bars they are the minimum low and the maximum high
\* of the last 5 bars.
C5_Levels ==
    Assembled =>
        IF Len(df) < 5
        THEN payload.support_hint = None /\ payload.resistance_hint = None
        ELSE /\ payload.support_hint = Whole(ExtremeOfLast(df, "Low", 5, TRUE))
             /\ payload.resistance_hint = Whole(ExtremeOfLast(df, "High", 5, FALSE))

\* C6: rsi(series, p) is NaN at each of the first p positions (indices
\* 0 .. p-1, positions 1 .. p here).
C6_RsiUndefinedFirstPeriod ==
    RsiReturned =>
        \A i \in 1..Len(fnRet) : i <= fnPeriod => IsNaN(fnRet[i])

\* the full window of w bars ending at position i holds no falling close
AvgLossZero(d, i, w) ==
    /\ i >= w
    /\ \A j \in (i - w + 1)..i : j = 1 \/ d[j].Close >= d[j - 1].Close

\* the full window of w bars ending at position i holds a bar with
\* high = low, or has volume 0 on every bar
CmfDegenerate(d, i, w) ==
    /\ i >= w
    /\ \/ \E j \in (i - w + 1)..i : d[j].High = d[j].Low
       \/ \A j \in (i - w + 1)..i : d[j].Volume = 0

\* C7: at every position whose RSI window has average loss exactly 0 the
\* RSI column is NaN (not 100, not infinite); at every position whose CMF
\* window holds a bar with high = low or has volume sum 0 the CMF column is
\* NaN (not 0); a run on a non-empty series never aborts, and the snapshot
\* carries None for such a latest value.
C7_DegenerateWindows ==
    /\ Len(df) > 0 => pc # "aborted"
    /\ Computed =>
           \A i \in 1..Len(df) :
               /\ AvgLossZero(df, i, RsiPeriod) => IsNaN(cols.RSI14[i])
               /\ CmfDegenerate(df, i, CmfPeriod) => IsNaN(cols.CMF20[i])
    /\ Assembled =>
           /\ AvgLossZero(df, Len(df), RsiPeriod) => payload.rsi14 = None
           /\ CmfDegenerate(df, Len(df), CmfPeriod) => payload.cmf20 = None
    /\ pc = "done" => jsonFile = payload

C7_Witness ==
    /\ pc = "done"
    /\ AvgLossZero(df, Len(df), RsiPeriod)
    /\ df[Len(df)].Close > df[Len(df) - 1].Close
    /\ CmfDegenerate(df, Len(df), CmfPeriod)
    /\ jsonFile.rsi14 = None
    /\ jsonFile.cmf20 = None

\* C8 as stated: on a strictly rising ramp of constant volume, once the
\* 14-bar window holds only gains the RSI at the latest position, and the
\* snapshot's RSI, is a defined number.
C8_RampRsiDefined ==
    (Computed /\ Ramp(df) /\ Len(df) > RsiPeriod) =>
        /\ Last(cols.RSI14).t = "num"
        /\ Assembled => payload.rsi14.t = "num"

\* C8 amended: on a strictly rising ramp of constant volume the RSI column
\* is NaN at every position, and the snapshot's RSI is None.
C8_RampRsiUndefined ==
    (Computed /\ Ramp(df)) =>
        /\ \A i \in 1..Len(df) : IsNaN(cols.RSI14[i])
        /\ Assembled => payload.rsi14 = None

C8_Witness ==
    /\ pc = "assembled"
    /\ Ramp(df)
    /\ Len(df) >= RsiPeriod + 6
    /\ payload.rsi14 = None
    /\ payload.obv = Whole((Len(df) - 1) * df[1].Volume)

\* C9: the snapshot's volatility proxy is None exactly when the series has
\* fewer than 21 log-returns; otherwise it is the standard deviation of the
\* last 20 log-returns times sqrt(252), rounded to 4 places.
C9_ProxyNullIffShort ==
    Assembled =>
        IF Len(df) - 1 < 21
        THEN payload.hv20_proxy = None
        ELSE /\ payload.hv20_proxy # None
             /\ payload.hv20_proxy =
                    Round(FMul(Last(RollingStd(LogReturns(df), 20)), Pos), 4)

\* C10: every entry of rsi's result is NaN or a number in [0, 100].
C10_RsiBounded ==
    RsiReturned =>
        \A i \in 1..Len(fnRet) :
            \/ IsNaN(fnRet[i])
            \/ /\ fnRet[i].t = "num"
               /\ 0 <= fnRet[i].n
               /\ fnRet[i].n <= 100 * fnRet[i].d

C10_Witness ==
    /\ RsiReturned
    /\ \E i \in 1..Len(fnRet) :
           /\ fnRet[i].t = "num"
           /\ 0 < fnRet[i].n
           /\ fnRet[i].n < 100 * fnRet[i].d

====
